---- MODULE Spec2Model ----
(***************************************************************************)
(* State machine of connman_service.c: the local mirror of one remote      *)
(* connman service / peer object.  The mirrored fields live in the record  *)
(* `service`; every handler of the source is an operator on a context      *)
(* record [svc, out, diag] (the service, the notifications emitted by the  *)
(* running handler, the process-wide diagnostics flag) and an action that  *)
(* applies it.                                                             *)
(***************************************************************************)
EXTENDS Integers, Sequences, FiniteSets, TLC

VARIABLES
    service,     \* connman_service_t: the mirrored fields
    diag,        \* static bool subscibed_for_diagnostiecs
    tokens,      \* every GCancellable allocated so far: [cancelled, unrefs]
    calls,       \* asynchronous connect calls whose completion is outstanding
    freed,       \* g_free(service) has run
    deferred,    \* a connman_service_free() returned early on a pending connect
    crashed,     \* the process died in a handler that ran on a freed service
    lastOp,      \* the operation the last step performed, with its inputs
    out,         \* what the last step emitted: callbacks, broadcasts, commands
    ip_rules     \* the routes and rules the commands have left in the OS tables

vars == <<service, diag, tokens, calls, freed, deferred, crashed, lastOp, out, ip_rules>>

(***************************************************************************)
(* Bounds of the model.                                                    *)
(***************************************************************************)
\* Connect / PeerConnect calls issued over the life of one service.
MaxConnects == 2

\* the largest category (a set of bits) handed to the change-mask functions
MaxCategory == 15

\* the longest WiFiDisplayIEs blob a snapshot carries
MaxWfdLen == 9

\* the longest BSS array a push or snapshot carries
MaxBss == 2

(***************************************************************************)
(* Values.                                                                 *)
(***************************************************************************)
\* a NULL gchar*
NULL == "NULL"
\* a NULL GCancellable* (tokens are numbered from 1)
NoToken == 0

CONNMAN_SERVICE_TYPE_WIFI == "WIFI"
CONNMAN_SERVICE_TYPE_ETHERNET == "ETHERNET"
CONNMAN_SERVICE_TYPE_P2P == "P2P"
ServiceTypes ==
    {CONNMAN_SERVICE_TYPE_WIFI, CONNMAN_SERVICE_TYPE_ETHERNET, CONNMAN_SERVICE_TYPE_P2P}

CONNMAN_SERVICE_CHANGE_CATEGORY_GETSTATUS == 1
CONNMAN_SERVICE_CHANGE_CATEGORY_FINDNETWORKS == 2

\* the wire vocabulary of the State property
ValidStateStrings ==
    {"idle", "association", "configuration", "ready", "online", "disconnect", "failure"}
\* the State strings the remote side is taken to send: the vocabulary and one
\* string outside it
StateStrings == ValidStateStrings \cup {"bogus"}

\* the values of the CONNMAN_SERVICE_STATE_ enumeration
StateEnum ==
    {"IDLE", "ASSOCIATION", "CONFIGURATION", "READY", "ONLINE", "DISCONNECT", "FAILURE"}

(***************************************************************************)
(* Bit operations on unsigned int.                                         *)
(***************************************************************************)
RECURSIVE BitAnd(_, _)
BitAnd(a, b) ==
    IF a = 0 \/ b = 0 THEN 0
    ELSE (a % 2) * (b % 2) + 2 * BitAnd(a \div 2, b \div 2)

BitOr(a, b) == a + b - BitAnd(a, b)

\* a & ~b: the bits of a that are not bits of b
BitAndNot(a, b) == a - BitAnd(a, b)

(***************************************************************************)
(* connman_service_get_state: state string to enum value.                  *)
(***************************************************************************)
connman_service_get_state_default_last(state) ==
    IF state = NULL THEN "IDLE"
    ELSE IF state = "idle" THEN "IDLE"
    ELSE IF state = "association" THEN "ASSOCIATION"
    ELSE IF state = "configuration" THEN "CONFIGURATION"
    ELSE IF state = "ready" THEN "READY"
    ELSE IF state = "online" THEN "ONLINE"
    ELSE IF state = "disconnect" THEN "DISCONNECT"
    ELSE IF state = "failure" THEN "FAILURE"
    ELSE "UNKNOWN"

connman_service_get_state(state) ==
    IF state = NULL THEN "IDLE"
    ELSE IF state = "idle" THEN "IDLE"
    ELSE IF state = "association" THEN "ASSOCIATION"
    ELSE IF state = "configuration" THEN "CONFIGURATION"
    ELSE IF state = "ready" THEN "READY"
    ELSE IF state = "online" THEN "ONLINE"
    ELSE IF state = "disconnect" THEN "DISCONNECT"
    ELSE IF state = "failure" THEN "FAILURE"
    ELSE "IDLE"

(***************************************************************************)
(* The change mask.                                                        *)
(***************************************************************************)
connman_service_unset_changed_toggle(svc, category) ==
    [svc EXCEPT !.change_mask = BitOr(@, category) - BitAnd(@, category)]

connman_service_unset_changed(svc, category) ==
    [svc EXCEPT !.change_mask = BitAndNot(@, category)]

connman_service_set_changed(svc, category) ==
    [svc EXCEPT !.change_mask = BitOr(@, category)]

connman_service_is_changed(svc, category) ==
    BitAnd(svc.change_mask, category) # 0

(***************************************************************************)
(* Strings the routing code looks into are sequences of characters.        *)
(***************************************************************************)
\* a NULL interface name
NullName == <<NULL>>

Digits == {"0", "1", "2", "3", "4", "5", "6", "7", "8", "9"}

DigitValue(ch) ==
    CASE ch = "0" -> 0 [] ch = "1" -> 1 [] ch = "2" -> 2 [] ch = "3" -> 3
      [] ch = "4" -> 4 [] ch = "5" -> 5 [] ch = "6" -> 6 [] ch = "7" -> 7
      [] ch = "8" -> 8 [] ch = "9" -> 9

\* the characters of str from position n on (str + n in C, n counted from 0)
Skip(str, n) == SubSeq(str, n + 1, Len(str))

\* sscanf(str, "%d", &v): [assigned, v]; the digits at the start of str
RECURSIVE ScanDigits(_, _, _)
ScanDigits(str, acc, seen) ==
    IF str # <<>> /\ Head(str) \in Digits
    THEN ScanDigits(Tail(str), 10 * acc + DigitValue(Head(str)), seen + 1)
    ELSE [assigned |-> IF seen > 0 THEN 1 ELSE 0, v |-> acc]

sscanf_d(str) == ScanDigits(str, 0, 0)

\* is_vlan() of utils.c: a VLAN interface is named <parent>.<vlan id>
is_vlan(name) == \E i \in 1..Len(name) : name[i] = "."

(***************************************************************************)
(* OS routing rules (MULTIPLE_ROUTING_TABLE build).                        *)
(***************************************************************************)
MULTIPLE_ROUTING_TABLE == TRUE

IpCommand(what, status, table_Id, ipv4) ==
    [ev |-> "system", what |-> what, verb |-> IF status THEN "add" ELSE "delete",
     table |-> table_Id, address |-> ipv4.address, prefix_len |-> ipv4.prefix_len,
     gateway |-> ipv4.gateway]

connman_service_set_ip_rule(c, status) ==
    IF /\ c.svc.ipv4.address # NULL
       /\ c.svc.ipv4.netmask # NULL
       /\ c.svc.ipv4.gateway # NULL
       /\ c.svc.interface_name # NullName
       /\ ~is_vlan(c.svc.interface_name)
    THEN LET scan == sscanf_d(Skip(c.svc.interface_name, 3))
             table_Id == scan.v + 10
         IN  IF scan.assigned > 0
             THEN [c EXCEPT !.out = @ \o <<IpCommand("route", status, table_Id, c.svc.ipv4),
                                            IpCommand("rule_from", status, table_Id, c.svc.ipv4),
                                            IpCommand("rule_to", status, table_Id, c.svc.ipv4)>>,
                            !.svc.iprule_added = status]
             ELSE c
    ELSE c

connman_service_create_ip_rule(c) ==
    IF ~c.svc.iprule_added /\ c.svc.state = "ready"
    THEN connman_service_set_ip_rule(c, TRUE)
    ELSE c

connman_service_delete_ip_rule(c) ==
    IF c.svc.iprule_added
    THEN connman_service_set_ip_rule(c, FALSE)
    ELSE c

(***************************************************************************)
(* connman_service_get_ipinfo: a synchronous GetProperties whose reply     *)
(* `reply` is an error or a bag; a key the bag lacks ("ABSENT") leaves the  *)
(* field as it was.                                                        *)
(***************************************************************************)
ABSENT == "ABSENT"

Fetched(old, new) == IF new = ABSENT THEN old ELSE new

\* a PrefixLength the bag lacks
NoPrefix == -1

FetchedInt(old, new) == IF new = NoPrefix THEN old ELSE new

connman_service_get_ipinfo(c, reply) ==
    IF reply.error THEN c
    ELSE [c EXCEPT !.svc.ipv4 =
            [address    |-> Fetched(@.address, reply.address),
             netmask    |-> Fetched(@.netmask, reply.netmask),
             gateway    |-> Fetched(@.gateway, reply.gateway),
             prefix_len |-> FetchedInt(@.prefix_len, reply.prefix_len)]]

(***************************************************************************)
(* connman_service_advance_state.  new_state is the string of the State    *)
(* value, reply the answer to the GetProperties call the Ethernet branch   *)
(* makes, connected_peer what is_connected_peer() returns.                 *)
(***************************************************************************)
PropertyChange(name, value) == [ev |-> "property_change", name |-> name, value |-> value]

TechnologyUpdate == [ev |-> "technology_update_properties"]

\* the suppression test that also lets "disconnect" through
Suppressed_not_disconnect(svc, new_state) ==
    svc.disconnecting /\ new_state \notin {"ready", "online", "disconnect"}

Suppressed(svc, new_state) ==
    svc.disconnecting /\ new_state # "ready" /\ new_state # "online"

\* the transition taken even when the string is the current one
StateDiffers_always(svc, new_state) == TRUE

StateDiffers(svc, new_state) == svc.state # new_state

Diagnostics(c, connected_peer) ==
    IF /\ ~c.diag
       /\ c.svc.type = CONNMAN_SERVICE_TYPE_P2P
       /\ c.svc.state = "ready"
       /\ connected_peer
    THEN [c EXCEPT !.out = Append(@, TechnologyUpdate), !.diag = TRUE]
    ELSE IF /\ c.diag
            /\ c.svc.type = CONNMAN_SERVICE_TYPE_P2P
            /\ c.svc.state = "disconnect"
            /\ ~connected_peer
    THEN [c EXCEPT !.out = Append(@, TechnologyUpdate), !.diag = FALSE]
    ELSE c

\* a transition that also ends the disconnect
Transition_clears_disconnecting(c, new_state, reply) ==
    LET c1 == [c EXCEPT !.svc = connman_service_set_changed(
                            [c.svc EXCEPT !.state = new_state, !.disconnecting = FALSE],
                            BitOr(CONNMAN_SERVICE_CHANGE_CATEGORY_GETSTATUS,
                                  CONNMAN_SERVICE_CHANGE_CATEGORY_FINDNETWORKS))]
        c2 == IF c1.svc.handle_property_change_fn
              THEN [c1 EXCEPT !.out = Append(@, PropertyChange("State", new_state))]
              ELSE c1
    IN  IF ~MULTIPLE_ROUTING_TABLE THEN c2
        ELSE IF new_state = "ready" /\ c2.svc.type = CONNMAN_SERVICE_TYPE_ETHERNET
        THEN connman_service_create_ip_rule(connman_service_get_ipinfo(c2, reply))
        ELSE IF c2.svc.type = CONNMAN_SERVICE_TYPE_ETHERNET
        THEN connman_service_delete_ip_rule(c2)
        ELSE c2

Transition(c, new_state, reply) ==
    LET c1 == [c EXCEPT !.svc = connman_service_set_changed(
                            [c.svc EXCEPT !.state = new_state],
                            BitOr(CONNMAN_SERVICE_CHANGE_CATEGORY_GETSTATUS,
                                  CONNMAN_SERVICE_CHANGE_CATEGORY_FINDNETWORKS))]
        c2 == IF c1.svc.handle_property_change_fn
              THEN [c1 EXCEPT !.out = Append(@, PropertyChange("State", new_state))]
              ELSE c1
    IN  IF ~MULTIPLE_ROUTING_TABLE THEN c2
        ELSE IF new_state = "ready" /\ c2.svc.type = CONNMAN_SERVICE_TYPE_ETHERNET
        THEN connman_service_create_ip_rule(connman_service_get_ipinfo(c2, reply))
        ELSE IF c2.svc.type = CONNMAN_SERVICE_TYPE_ETHERNET
        THEN connman_service_delete_ip_rule(c2)
        ELSE c2

\* a transition taken only for a registered callback
connman_service_advance_state_needs_callback(c, new_state, reply, connected_peer) ==
    IF Suppressed(c.svc, new_state)
    THEN [c EXCEPT !.svc.disconnecting = FALSE]
    ELSE Diagnostics(IF StateDiffers(c.svc, new_state) /\ c.svc.handle_property_change_fn
                     THEN Transition(c, new_state, reply)
                     ELSE c,
                     connected_peer)

\* a suppression that leaves the flag set
connman_service_advance_state_keeps_flag(c, new_state, reply, connected_peer) ==
    IF Suppressed(c.svc, new_state)
    THEN c
    ELSE Diagnostics(IF StateDiffers(c.svc, new_state)
                     THEN Transition(c, new_state, reply)
                     ELSE c,
                     connected_peer)

connman_service_advance_state(c, new_state, reply, connected_peer) ==
    IF Suppressed(c.svc, new_state)
    THEN [c EXCEPT !.svc.disconnecting = FALSE]
    ELSE Diagnostics(IF StateDiffers(c.svc, new_state)
                     THEN Transition(c, new_state, reply)
                     ELSE c,
                     connected_peer)

(***************************************************************************)
(* connman_service_advance_online_state.                                   *)
(***************************************************************************)
BoolString(b) == IF b THEN "true" ELSE "false"

SendStatusToSubscribers == [ev |-> "send_status_to_subscribers"]

connman_service_advance_online_state_marks_both(c, va) ==
    LET old_online == c.svc.online
        c1 == [c EXCEPT !.svc.online = va]
    IN  IF old_online # va
        THEN LET c2 == [c1 EXCEPT !.svc = connman_service_set_changed(
                                      @, BitOr(CONNMAN_SERVICE_CHANGE_CATEGORY_GETSTATUS,
                                               CONNMAN_SERVICE_CHANGE_CATEGORY_FINDNETWORKS))]
             IN  IF c2.svc.handle_property_change_fn
                 THEN [c2 EXCEPT !.out = Append(@, PropertyChange("Online", BoolString(va)))]
                 ELSE IF c2.svc.type = CONNMAN_SERVICE_TYPE_ETHERNET
                 THEN [c2 EXCEPT !.out = Append(@, SendStatusToSubscribers)]
                 ELSE c2
        ELSE c1

connman_service_advance_online_state(c, va) ==
    LET old_online == c.svc.online
        c1 == [c EXCEPT !.svc.online = va]
    IN  IF old_online # va
        THEN LET c2 == [c1 EXCEPT !.svc = connman_service_set_changed(
                                      @, CONNMAN_SERVICE_CHANGE_CATEGORY_GETSTATUS)]
             IN  IF c2.svc.handle_property_change_fn
                 THEN [c2 EXCEPT !.out = Append(@, PropertyChange("Online", BoolString(va)))]
                 ELSE IF c2.svc.type = CONNMAN_SERVICE_TYPE_ETHERNET
                 THEN [c2 EXCEPT !.out = Append(@, SendStatusToSubscribers)]
                 ELSE c2
        ELSE c1

(***************************************************************************)
(* The asynchronous connect.  A remote result is [error, message]; an      *)
(* error message is a sequence of fragments, and g_strrstr(message, needle)*)
(* finds the needle when one of the fragments is the needle.               *)
(***************************************************************************)
RemoteOk == [error |-> FALSE, message |-> <<>>]

RemoteError(message) == [error |-> TRUE, message |-> message]

\* what GDBus reports for a call whose own cancellable was cancelled
CancelledError == RemoteError(<<"GDBus.Error:", "Operation was cancelled">>)

ConnectResults ==
    {RemoteOk,
     RemoteError(<<"GDBus.Error:net.connman.Error.", "AlreadyConnected", ": Already connected">>),
     RemoteError(<<"GDBus.Error:net.connman.Error.", "Operation aborted">>),
     RemoteError(<<"GDBus.Error:net.connman.Error.", "Failed", ": Input/output error">>)}

g_strrstr(message, needle) == \E i \in 1..Len(message) : message[i] = needle

ConnectCb(call, ret) == [ev |-> "connect_cb", call |-> call.id, ret |-> ret]

\* a release that clears the field and drops no reference
ReleaseCancellable_forgets_unref(svc, toks) ==
    [svc  |-> [svc EXCEPT !.cancellable = NoToken],
     toks |-> toks]

\* g_object_unref(service->cancellable); service->cancellable = NULL;
ReleaseCancellable(svc, toks) ==
    [svc  |-> [svc EXCEPT !.cancellable = NoToken],
     toks |-> IF svc.cancellable = NoToken THEN toks
              ELSE [toks EXCEPT ![svc.cancellable].unrefs = @ + 1]]

\* the first test of both completion handlers
CancelledPath_null_only(svc, toks) == svc.cancellable = NoToken

CancelledPath(svc, toks) ==
    svc.cancellable = NoToken \/ toks[svc.cancellable].cancelled

\* the value handed to the caller when the token is live
ConnectReturn_whole_message(res) ==
    IF res.error /\ res.message = <<"AlreadyConnected">> THEN TRUE
    ELSE ~res.error

ConnectReturn(res) ==
    IF res.error /\ g_strrstr(res.message, "AlreadyConnected") THEN TRUE
    ELSE ~res.error

PeerConnectReturn_already_connected_only(res) ==
    IF res.error /\ g_strrstr(res.message, "AlreadyConnected") THEN TRUE
    ELSE ~res.error

PeerConnectReturn(res) ==
    IF res.error /\ (\/ g_strrstr(res.message, "AlreadyConnected")
                     \/ g_strrstr(res.message, "Operation aborted"))
    THEN TRUE
    ELSE ~res.error

\* connect_callback / peer_connect_callback: [svc, toks, out]
CompletionHandler(svc, toks, call, ret) ==
    LET rel == ReleaseCancellable(svc, toks)
    IN  IF CancelledPath(svc, toks)
        THEN [svc |-> rel.svc, toks |-> rel.toks,
              out |-> IF call.cb THEN <<ConnectCb(call, FALSE)>> ELSE <<>>]
        ELSE [svc |-> rel.svc, toks |-> rel.toks,
              out |-> IF call.cb THEN <<ConnectCb(call, ret)>> ELSE <<>>]

connect_callback(svc, toks, call, res) ==
    CompletionHandler(svc, toks, call, ConnectReturn(res))

peer_connect_callback(svc, toks, call, res) ==
    CompletionHandler(svc, toks, call, PeerConnectReturn(res))

(***************************************************************************)
(* The property decoders.  A property is [key, val]; a boolean value       *)
(* travels as the string "true" or "false".                                *)
(***************************************************************************)
g_variant_get_boolean(val) == val = "true"

Property(key, val) == [key |-> key, val |-> val]

\* connman_update_callbacks->service_property_changed(path, property, value)
UpdateCallback(property, val) ==
    [ev |-> "service_property_changed", name |-> property, value |-> val]

connman_service_update_type(svc, v) ==
    IF v = "wifi" THEN [svc EXCEPT !.type = CONNMAN_SERVICE_TYPE_WIFI]
    ELSE IF v = "ethernet" THEN [svc EXCEPT !.type = CONNMAN_SERVICE_TYPE_ETHERNET]
    ELSE IF v = "Peer" \/ v = "peer" THEN [svc EXCEPT !.type = CONNMAN_SERVICE_TYPE_P2P]
    ELSE svc

(***************************************************************************)
(* The BSS array.  An entry is a record that has or lacks the fields Id (a *)
(* sequence of characters), Signal and Frequency; g_variant_lookup_value   *)
(* finds a field when the record has it.  Both decoders hold the same      *)
(* loop; service->bss is a sequence, empty before the first update.        *)
(***************************************************************************)
\* g_strlcpy(dst, src, size): the first size - 1 characters of src
g_strlcpy(src, size) == SubSeq(src, 1, IF Len(src) < size - 1 THEN Len(src) ELSE size - 1)

\* the bssinfo_t built from one entry
bss_info(bss_entry) ==
    [bssid     |-> IF "Id" \in DOMAIN bss_entry THEN g_strlcpy(bss_entry.Id, 18) ELSE <<>>,
     signal    |-> IF "Signal" \in DOMAIN bss_entry THEN bss_entry.Signal ELSE 0,
     frequency |-> IF "Frequency" \in DOMAIN bss_entry THEN bss_entry.Frequency ELSE 0]

\* the loop over the entries, appending to array
RECURSIVE BssArray(_, _)
BssArray(array, va) ==
    IF va = <<>> THEN array
    ELSE BssArray(Append(array, bss_info(Head(va))), Tail(va))

\* the BSS branch of both decoders
UpdateBss_keeps_old(svc, va) == [svc EXCEPT !.bss = BssArray(@, va)]

UpdateBss(svc, va) == [svc EXCEPT !.bss = BssArray(<<>>, va)]

\* a Strength branch that stores its category as the whole mask
UpdateStrength_replaces_mask(svc, strength) ==
    IF strength # svc.strength
    THEN [svc EXCEPT !.strength = strength,
                     !.change_mask = CONNMAN_SERVICE_CHANGE_CATEGORY_FINDNETWORKS]
    ELSE svc

\* the Strength branch of both decoders
UpdateStrength(svc, strength) ==
    IF strength # svc.strength
    THEN connman_service_set_changed([svc EXCEPT !.strength = strength],
                                     CONNMAN_SERVICE_CHANGE_CATEGORY_FINDNETWORKS)
    ELSE svc

\* the IPv6, Proxy and Nameservers branches of property_changed_cb
StatusChanged(c) ==
    [c EXCEPT !.svc = connman_service_set_changed(
                          @, CONNMAN_SERVICE_CHANGE_CATEGORY_GETSTATUS),
              !.out = Append(@, SendStatusToSubscribers)]

\* property_changed_cb: one pushed property.  update_cb tells whether the
\* process-wide service_property_changed callback is set; it is called first.
\* PushedProperty is the chain of branches that follows.  The P2P request
\* properties only call the P2P request callback and count as other keys.
PushedProperty(c0, property, va, reply, connected_peer) ==
        IF property = "State"
        THEN connman_service_advance_state(c0, va, reply, connected_peer)
        ELSE IF property = "Strength"
        THEN [c0 EXCEPT !.svc = UpdateStrength(@, va)]
        ELSE IF property = "BSS"
        THEN [c0 EXCEPT !.svc = UpdateBss(@, va)]
        ELSE IF property = "Online"
        THEN connman_service_advance_online_state(c0, g_variant_get_boolean(va))
        ELSE IF property = "RunOnlineCheck"
        THEN IF c0.svc.online_checking # g_variant_get_boolean(va)
             THEN StatusChanged([c0 EXCEPT !.svc.online_checking = g_variant_get_boolean(va)])
             ELSE c0
        ELSE IF property = "AutoConnect"
        THEN [c0 EXCEPT !.svc.auto_connect = g_variant_get_boolean(va)]
        ELSE IF property = "Favorite"
        THEN [c0 EXCEPT !.svc.favorite = g_variant_get_boolean(va)]
        ELSE IF property = "Error"
        THEN [c0 EXCEPT !.svc.error = va]
        ELSE IF property \in {"IPv6", "Proxy", "Nameservers"}
        THEN StatusChanged(c0)
        ELSE IF property = "IPv4"
        THEN IF /\ c0.svc.type = CONNMAN_SERVICE_TYPE_P2P
                /\ c0.svc.peer.group_owner
                /\ c0.svc.handle_property_change_fn
             THEN [c0 EXCEPT !.out = Append(@, PropertyChange("IPv4", va))]
             ELSE c0
        ELSE c0

\* a handler that tells the update callback after it has decoded, and only
\* of the properties it knows
property_changed_cb_callback_last(c, property, va, update_cb, reply, connected_peer) ==
    LET c1 == PushedProperty(c, property, va, reply, connected_peer)
    IN  IF update_cb /\ c1 # c
        THEN [c1 EXCEPT !.out = Append(@, UpdateCallback(property, va))]
        ELSE c1

property_changed_cb(c, property, va, update_cb, reply, connected_peer) ==
    PushedProperty(IF update_cb
                   THEN [c EXCEPT !.out = Append(@, UpdateCallback(property, va))]
                   ELSE c,
                   property, va, reply, connected_peer)

(***************************************************************************)
(* The WFD device information subelement.  A blob is a sequence of bytes;  *)
(* the C index i is the TLA+ index i + 1.                                  *)
(***************************************************************************)
Bit1 == 2
Bit0 == 1

Byte(wfd_subelems, i) == wfd_subelems[i + 1]

wfd_devtype_of_byte3(wfd_subelems) ==
    BitAnd(Byte(wfd_subelems, 3), BitOr(Bit0, Bit1))

wfd_devtype(wfd_subelems) ==
    BitAnd(Byte(wfd_subelems, 4), BitOr(Bit0, Bit1))

wfd_sessionavail(wfd_subelems) ==
    BitAnd(Byte(wfd_subelems, 4) \div 16, BitOr(Bit0, Bit1))

wfd_cpsupport(wfd_subelems) == BitAnd(Byte(wfd_subelems, 3), Bit0)

wfd_rtspport_little_endian(wfd_subelems) ==
    Byte(wfd_subelems, 5) + Byte(wfd_subelems, 6) * 256

wfd_rtspport(wfd_subelems) ==
    Byte(wfd_subelems, 5) * 256 + Byte(wfd_subelems, 6)

p2p_parse_wfd_dev_info(wfd_subelems, len, peer) ==
    IF len < 9 THEN peer
    ELSE IF Byte(wfd_subelems, 0) # 0 THEN peer
    ELSE IF Byte(wfd_subelems, 1) # 0 /\ Byte(wfd_subelems, 2) # 6 THEN peer
    ELSE [peer EXCEPT !.wfd_enabled = TRUE,
                      !.wfd_devtype = wfd_devtype(wfd_subelems),
                      !.wfd_sessionavail = wfd_sessionavail(wfd_subelems),
                      !.wfd_cpsupport = wfd_cpsupport(wfd_subelems),
                      !.wfd_rtspport = wfd_rtspport(wfd_subelems)]

\* a gboolean field
gboolean(b) == IF b THEN 1 ELSE 0

\* one entry of the bag under the P2P key (GroupOwner and the WFD entries)
P2PProperty(peer, p2p_key, p2p_val) ==
    IF p2p_key = "GroupOwner"
    THEN [peer EXCEPT !.group_owner = g_variant_get_boolean(p2p_val)]
    ELSE IF p2p_key = "WFDDevType"
    THEN [peer EXCEPT !.wfd_devtype = p2p_val, !.wfd_enabled = TRUE]
    ELSE IF p2p_key = "WFDSessionAvail"
    THEN [peer EXCEPT !.wfd_sessionavail = gboolean(g_variant_get_boolean(p2p_val))]
    ELSE IF p2p_key = "WFDCPSupport"
    THEN [peer EXCEPT !.wfd_cpsupport = gboolean(g_variant_get_boolean(p2p_val))]
    ELSE IF p2p_key = "WFDRtspPort"
    THEN [peer EXCEPT !.wfd_rtspport = p2p_val]
    ELSE peer

RECURSIVE P2PProperties(_, _)
P2PProperties(peer, val) ==
    IF val = <<>> THEN peer
    ELSE P2PProperties(P2PProperty(peer, Head(val).key, Head(val).val), Tail(val))

\* one entry of the array under the Services key
ServiceProperty(peer, p2p_service_key, p2p_service_val) ==
    IF p2p_service_key = "WiFiDisplayIEs"
    THEN p2p_parse_wfd_dev_info(p2p_service_val, Len(p2p_service_val), peer)
    ELSE peer

RECURSIVE ServiceArray(_, _)
ServiceArray(peer, service_array) ==
    IF service_array = <<>> THEN peer
    ELSE ServiceArray(ServiceProperty(peer, Head(service_array).key,
                                      Head(service_array).val),
                      Tail(service_array))

\* one entry of the array under the Ethernet key; the hardware address is
\* not kept
EthernetProperty(c, ekey, eval) ==
    IF ekey = "Interface"
    THEN LET c1 == [c EXCEPT !.svc.interface_name = eval]
         IN  IF MULTIPLE_ROUTING_TABLE THEN connman_service_create_ip_rule(c1) ELSE c1
    ELSE c

RECURSIVE EthernetArray(_, _)
EthernetArray(c, va) ==
    IF va = <<>> THEN c
    ELSE EthernetArray(EthernetProperty(c, Head(va).key, Head(va).val), Tail(va))

\* a State branch that looks at the value, not at the state it leaves
UpdateState_hidden_by_value(c, val, reply, connected_peer) ==
    LET c1 == connman_service_advance_state(c, val, reply, connected_peer)
    IN  IF val = "association"
        THEN [c1 EXCEPT !.svc.hidden = TRUE]
        ELSE c1

\* the State branch of connman_service_update_properties
UpdateState(c, val, reply, connected_peer) ==
    LET c1 == connman_service_advance_state(c, val, reply, connected_peer)
    IN  IF c1.svc.state = "association"
        THEN [c1 EXCEPT !.svc.hidden = TRUE]
        ELSE c1

\* one key of connman_service_update_properties
UpdateProperty(c, key, val, reply, connected_peer) ==
    IF key = "Name"
    THEN [c EXCEPT !.svc = [(IF val # @.name
                             THEN connman_service_set_changed(
                                      @, BitOr(CONNMAN_SERVICE_CHANGE_CATEGORY_GETSTATUS,
                                               CONNMAN_SERVICE_CHANGE_CATEGORY_FINDNETWORKS))
                             ELSE @) EXCEPT !.name = val]]
    ELSE IF key = "Type"
    THEN [c EXCEPT !.svc = connman_service_update_type(@, val)]
    ELSE IF key = "State"
    THEN UpdateState(c, val, reply, connected_peer)
    ELSE IF key = "Strength"
    THEN [c EXCEPT !.svc = UpdateStrength(@, val)]
    ELSE IF key = "Security"
    THEN [c EXCEPT !.svc.security = val]
    ELSE IF key = "AutoConnect"
    THEN [c EXCEPT !.svc.auto_connect = g_variant_get_boolean(val)]
    ELSE IF key = "Immutable"
    THEN [c EXCEPT !.svc.immutable = g_variant_get_boolean(val)]
    ELSE IF key = "Favorite"
    THEN [c EXCEPT !.svc.favorite = g_variant_get_boolean(val)]
    ELSE IF key = "Online"
    THEN connman_service_advance_online_state(c, g_variant_get_boolean(val))
    ELSE IF key = "RunOnlineCheck"
    THEN [c EXCEPT !.svc.online_checking = g_variant_get_boolean(val)]
    ELSE IF key = "P2P"
    THEN [c EXCEPT !.svc.peer = P2PProperties([@ EXCEPT !.wfd_enabled = FALSE], val)]
    ELSE IF key = "Services"
    THEN [c EXCEPT !.svc.peer = ServiceArray(@, val)]
    ELSE IF key = "Address"
    THEN [c EXCEPT !.svc.address = val]
    ELSE IF key = "Ethernet"
    THEN EthernetArray(c, val)
    ELSE IF key = "BSS"
    THEN [c EXCEPT !.svc = UpdateBss(@, val)]
    ELSE c

\* connman_service_update_properties: the keys of the bag in order
RECURSIVE connman_service_update_properties(_, _, _, _)
connman_service_update_properties(c, properties, reply, connected_peer) ==
    IF properties = <<>> THEN c
    ELSE connman_service_update_properties(
             UpdateProperty(c, Head(properties).key, Head(properties).val,
                            reply, connected_peer),
             Tail(properties), reply, connected_peer)

(***************************************************************************)
(* Inputs.                                                                 *)
(***************************************************************************)
StateProperties == {Property("State", s) : s \in StateStrings}

OnlineProperties == {Property("Online", b) : b \in {"true", "false"}}

PushedProperties == StateProperties \cup OnlineProperties \cup {Property("Unknown", "x")}

\* the bags a snapshot delivers: every single key, and some bags of two keys
Snapshots ==
    {<<p>> : p \in StateProperties \cup OnlineProperties}
        \cup {<<Property("State", "association"), Property("Online", "true")>>,
              <<Property("Online", "true"), Property("State", "ready")>>,
              <<Property("State", "ready"), Property("State", "idle")>>}

\* WiFiDisplayIEs blobs: subelement id and length field, four chosen bytes,
\* then 0xBB and zeros, cut or filled to a length; and the empty blob
WfdHeaders == {<<0, 0, 6>>, <<1, 0, 6>>, <<0, 1, 6>>, <<0, 0, 7>>, <<0, 1, 7>>}

WfdBodies == {1, 254} \X {35, 255} \X {69, 255} \X {1, 255}

WfdBlob(header, body, len) ==
    [i \in 1..len |-> IF i <= 3 THEN header[i]
                      ELSE IF i <= 7 THEN body[i - 3]
                      ELSE IF i = 8 THEN 187 ELSE 0]

WfdBlobs ==
    {<<>>} \cup {WfdBlob(header, body, len) :
                    header \in WfdHeaders, body \in WfdBodies, len \in 8..MaxWfdLen}

ServicesProperties ==
    {Property("Services", <<Property("WiFiDisplayIEs", blob)>>) : blob \in WfdBlobs}
        \cup {Property("Services", <<>>),
              Property("Services", <<Property("UpnpService", WfdBlob(<<0, 0, 6>>, <<1, 35, 69, 1>>, 9))>>)}

P2PProperties_in ==
    {Property("P2P", <<>>),
     Property("P2P", <<Property("WFDDevType", 2), Property("WFDSessionAvail", "true"),
                       Property("WFDCPSupport", "false"), Property("WFDRtspPort", 7236)>>),
     Property("P2P", <<Property("DeviceAddress", "aa:bb")>>)}

\* BSS ids of 17 and of 18 characters, and one of another access point
Bssid17 == <<"0", "0", ":", "1", "1", ":", "2", "2", ":", "3", "3", ":", "4", "4", ":", "5", "5">>

Bssid18 == Append(Bssid17, "x")

BssidOther == <<"a", "a", ":", "b", "b", ":", "c", "c", ":", "d", "d", ":", "e", "e", ":", "f", "f">>

\* entries of a BSS array: complete ones, and ones that lack fields
BssEntries ==
    {[Id |-> Bssid17, Signal |-> -40, Frequency |-> 2437],
     [Id |-> Bssid18, Signal |-> -55, Frequency |-> 5180],
     [Id |-> BssidOther, Signal |-> -70, Frequency |-> 2412],
     [Signal |-> -60, Frequency |-> 2462],
     [Id |-> BssidOther, Frequency |-> 5200],
     [Id |-> BssidOther, Signal |-> -80],
     [Other |-> 1]}

RECURSIVE BssArrays(_)
BssArrays(n) ==
    IF n = 0 THEN {<<>>}
    ELSE LET shorter == BssArrays(n - 1)
         IN  shorter \cup {Append(va, e) : va \in {a \in shorter : Len(a) = n - 1},
                                           e \in BssEntries}

BssProperties == {Property("BSS", va) : va \in BssArrays(MaxBss)}

\* interface names as the Ethernet bag of a service of the type gives them: a
\* wired device, the same renamed, a VLAN on it; a wireless device under the
\* kernel's name and under a predictable name.  A peer has no Ethernet bag.
InterfaceNames(type) ==
    IF type = CONNMAN_SERVICE_TYPE_ETHERNET
    THEN {<<"e", "t", "h", "0">>, <<"e", "t", "h", "1">>, <<"w", "a", "n">>,
          <<"e", "t", "h", "0", ".", "5">>}
    ELSE IF type = CONNMAN_SERVICE_TYPE_WIFI
    THEN {<<"w", "l", "a", "n", "0">>, <<"w", "l", "p", "2", "s", "0">>}
    ELSE {}

EthernetSnapshots(type) ==
    {<<Property("Ethernet", <<Property("Interface", name)>>)>> : name \in InterfaceNames(type)}

\* GetProperties replies with the IPv4 bag complete
FetchReplies ==
    {[error |-> FALSE, address |-> "192.168.1.5", netmask |-> "255.255.255.0",
      gateway |-> "192.168.1.1", prefix_len |-> 24],
     [error |-> FALSE, address |-> "10.0.0.7", netmask |-> "255.0.0.0",
      gateway |-> "10.0.0.1", prefix_len |-> 8]}

\* a GetProperties reply that is an error
FetchError ==
    [error |-> TRUE, address |-> ABSENT, netmask |-> ABSENT, gateway |-> ABSENT,
     prefix_len |-> NoPrefix]

SyncErrors == {FALSE, TRUE}

(***************************************************************************)
(* Initial state: a service created by connman_service_new from a bag that *)
(* names its type.                                                         *)
(***************************************************************************)
NewService(type) ==
    [type |-> type, state |-> NULL, online |-> FALSE, disconnecting |-> FALSE,
     change_mask |-> 0, hidden |-> FALSE, handle_property_change_fn |-> FALSE,
     cancellable |-> NoToken, iprule_added |-> FALSE, interface_name |-> NullName,
     name |-> NULL, strength |-> 0, security |-> <<>>, auto_connect |-> FALSE,
     immutable |-> FALSE, favorite |-> FALSE, online_checking |-> FALSE,
     address |-> NULL, error |-> NULL, bss |-> <<>>,
     peer |-> [group_owner |-> FALSE, wfd_enabled |-> FALSE, wfd_devtype |-> 0,
               wfd_sessionavail |-> 0, wfd_cpsupport |-> 0, wfd_rtspport |-> 0],
     ipv4 |-> [address |-> NULL, netmask |-> NULL, gateway |-> NULL, prefix_len |-> 0]]

InitOf(types) ==
    /\ \E type \in types :
          /\ service = NewService(type)
          /\ lastOp = [op |-> "connman_service_new", type |-> type]
    /\ diag = FALSE
    /\ tokens = <<>>
    /\ calls = {}
    /\ freed = FALSE
    /\ deferred = FALSE
    /\ crashed = FALSE
    /\ out = <<>>
    /\ ip_rules = {}

Init == InitOf(ServiceTypes)

Alive == ~freed /\ ~crashed

Context == [svc |-> service, diag |-> diag, out |-> <<>>]

\* what a route or rule command names: the entry it adds to or deletes from
\* the OS tables
Rule(e) ==
    [what |-> e.what, table |-> e.table, address |-> e.address,
     prefix_len |-> e.prefix_len, gateway |-> e.gateway]

\* the OS tables after the commands of o have run on rules: a delete
\* command removes the entry it names, if there is one
RECURSIVE Installed(_, _)
Installed(rules, o) ==
    IF o = <<>> THEN rules
    ELSE IF Head(o).ev # "system" THEN Installed(rules, Tail(o))
    ELSE IF Head(o).verb = "add" THEN Installed(rules \cup {Rule(Head(o))}, Tail(o))
    ELSE Installed(rules \ {Rule(Head(o))}, Tail(o))

Apply(c) ==
    /\ service' = c.svc
    /\ diag' = c.diag
    /\ out' = c.out
    /\ ip_rules' = Installed(ip_rules, c.out)

(***************************************************************************)
(* Pushes and snapshots.                                                   *)
(***************************************************************************)
\* what is_connected_peer() can return where the handlers consult it
ConnectedPeer == IF service.type = CONNMAN_SERVICE_TYPE_P2P THEN BOOLEAN ELSE {FALSE}

PropertyChanged(props, update_cbs) ==
    /\ Alive
    /\ \E p \in props, update_cb \in update_cbs, connected_peer \in ConnectedPeer :
          /\ Apply(property_changed_cb(Context, p.key, p.val, update_cb,
                                       FetchError, connected_peer))
          /\ lastOp' = [op |-> "property_changed_cb", key |-> p.key, val |-> p.val,
                        was_disconnecting |-> service.disconnecting,
                        was_same |-> p.key = "State" /\ p.val = service.state,
                        update_cb |-> update_cb]
    /\ UNCHANGED <<tokens, calls, freed, deferred, crashed>>

UpdateProperties(bags) ==
    /\ Alive
    /\ \E bag \in bags, connected_peer \in ConnectedPeer :
          /\ Apply(connman_service_update_properties(Context, bag, FetchError,
                                                     connected_peer))
          /\ lastOp' = [op |-> "connman_service_update_properties", bag |-> bag,
                        was_disconnecting |-> service.disconnecting,
                        was_same |-> /\ Head(bag).key = "State"
                                     /\ Head(bag).val = service.state]
    /\ UNCHANGED <<tokens, calls, freed, deferred, crashed>>

Return(ret) == [ev |-> "return", ret |-> ret]

\* a State push whose GetProperties call (made for an Ethernet service that
\* enters "ready") is answered by one of replies
StatePush(states, replies) ==
    /\ Alive
    /\ \E s \in states, reply \in replies, connected_peer \in ConnectedPeer :
          /\ Apply(property_changed_cb(Context, "State", s, FALSE, reply, connected_peer))
          /\ lastOp' = [op |-> "property_changed_cb", key |-> "State", val |-> s,
                        was_disconnecting |-> service.disconnecting,
                        was_same |-> s = service.state,
                        update_cb |-> FALSE,
                        connected_peer |-> connected_peer]
    /\ UNCHANGED <<tokens, calls, freed, deferred, crashed>>

\* connman_service_get_ipinfo called by the owner of the service
GetIpinfo(replies) ==
    /\ Alive
    /\ \E reply \in replies :
          /\ Apply([connman_service_get_ipinfo(Context, reply)
                       EXCEPT !.out = <<Return(~reply.error)>>])
          /\ lastOp' = [op |-> "connman_service_get_ipinfo", error |-> reply.error]
    /\ UNCHANGED <<tokens, calls, freed, deferred, crashed>>

RegisterPropertyChangedCb ==
    /\ Alive
    /\ \E func \in BOOLEAN :
          /\ service' = IF func THEN [service EXCEPT !.handle_property_change_fn = TRUE]
                        ELSE service
          /\ lastOp' = [op |-> "connman_service_register_property_changed_cb",
                        func |-> func]
    /\ out' = <<>>
    /\ UNCHANGED <<diag, tokens, calls, freed, deferred, crashed, ip_rules>>

UnsetChanged ==
    /\ Alive
    /\ \E category \in 1..3 :
          /\ service' = connman_service_unset_changed(service, category)
          /\ lastOp' = [op |-> "connman_service_unset_changed", category |-> category]
    /\ out' = <<>>
    /\ UNCHANGED <<diag, tokens, calls, freed, deferred, crashed, ip_rules>>

\* The three change-mask functions as a caller may use them, with any
\* non-empty set of bits as category.
Categories == 1..MaxCategory

SetChangedCall ==
    /\ Alive
    /\ \E category \in Categories :
          /\ service' = connman_service_set_changed(service, category)
          /\ lastOp' = [op |-> "connman_service_set_changed", category |-> category]
    /\ out' = <<>>
    /\ UNCHANGED <<diag, tokens, calls, freed, deferred, crashed, ip_rules>>

UnsetChangedCall ==
    /\ Alive
    /\ \E category \in Categories :
          /\ service' = connman_service_unset_changed(service, category)
          /\ lastOp' = [op |-> "connman_service_unset_changed", category |-> category]
    /\ out' = <<>>
    /\ UNCHANGED <<diag, tokens, calls, freed, deferred, crashed, ip_rules>>

IsChangedCall ==
    /\ Alive
    /\ \E category \in Categories :
          /\ out' = <<Return(connman_service_is_changed(service, category))>>
          /\ lastOp' = [op |-> "connman_service_is_changed", category |-> category]
    /\ UNCHANGED <<service, diag, tokens, calls, freed, deferred, crashed, ip_rules>>

(***************************************************************************)
(* Synchronous commands.  error tells whether the remote call set a GError.*)
(***************************************************************************)
\* a command that takes the flag back when the remote call fails
DisconnectCommand_rolls_back(name) ==
    /\ Alive
    /\ \E error \in SyncErrors :
          /\ service' = [service EXCEPT !.disconnecting = IF error THEN @ ELSE TRUE]
          /\ out' = <<Return(~error)>>
          /\ lastOp' = [op |-> name, error |-> error]
    /\ UNCHANGED <<diag, tokens, calls, freed, deferred, crashed, ip_rules>>

\* connman_service_disconnect, connman_peer_disconnect, connman_service_remove
DisconnectCommand(name) ==
    /\ Alive
    /\ \E error \in SyncErrors :
          /\ service' = [service EXCEPT !.disconnecting = TRUE]
          /\ out' = <<Return(~error)>>
          /\ lastOp' = [op |-> name, error |-> error]
    /\ UNCHANGED <<diag, tokens, calls, freed, deferred, crashed, ip_rules>>

Disconnect == DisconnectCommand("connman_service_disconnect")

PeerDisconnect == DisconnectCommand("connman_peer_disconnect")

Remove == DisconnectCommand("connman_service_remove")

\* the one remote call a command makes
RemoteCall(name) == [ev |-> "remote_call", name |-> name]

\* connman_service_reject_peer, connman_service_set_default
PlainCommand_sets_disconnecting(name) ==
    /\ Alive
    /\ \E error \in SyncErrors :
          /\ service' = [service EXCEPT !.disconnecting = TRUE]
          /\ out' = <<RemoteCall(name), Return(~error)>>
          /\ lastOp' = [op |-> name, error |-> error]
    /\ UNCHANGED <<diag, tokens, calls, freed, deferred, crashed, ip_rules>>

PlainCommand(name) ==
    /\ Alive
    /\ \E error \in SyncErrors :
          /\ out' = <<RemoteCall(name), Return(~error)>>
          /\ lastOp' = [op |-> name, error |-> error]
    /\ UNCHANGED <<service, diag, tokens, calls, freed, deferred, crashed, ip_rules>>

RejectPeer == PlainCommand("connman_service_reject_peer")

SetDefault == PlainCommand("connman_service_set_default")

\* the commands that set a remote property from a structure or a list given
\* by pointer, and those that set it from a scalar or a string
PointerCommands ==
    {"connman_service_set_ipv6", "connman_service_set_ipv4",
     "connman_service_set_proxy", "connman_service_set_nameservers"}

ScalarCommands ==
    {"connman_service_set_autoconnect", "connman_service_set_run_online_check",
     "connman_service_set_passphrase"}

\* a command that calls again after an error
SetProperty_retries ==
    /\ Alive
    /\ \E name \in PointerCommands \cup ScalarCommands, arg_null \in BOOLEAN,
          error \in SyncErrors :
          /\ arg_null => name \in PointerCommands /\ ~error
          /\ out' = IF arg_null THEN <<Return(FALSE)>>
                    ELSE IF error THEN <<RemoteCall(name), RemoteCall(name), Return(FALSE)>>
                    ELSE <<RemoteCall(name), Return(TRUE)>>
          /\ lastOp' = [op |-> name, error |-> error, arg_null |-> arg_null]
    /\ UNCHANGED <<service, diag, tokens, calls, freed, deferred, crashed, ip_rules>>

\* connman_service_set_ipv6, _set_ipv4, _set_proxy, _set_nameservers,
\* _set_autoconnect, _set_run_online_check, _set_passphrase: the argument is
\* packed and sent with one set_property call; arg_null is a NULL pointer
\* argument, which returns before the call
SetProperty ==
    /\ Alive
    /\ \E name \in PointerCommands \cup ScalarCommands, arg_null \in BOOLEAN,
          error \in SyncErrors :
          /\ arg_null => name \in PointerCommands /\ ~error
          /\ out' = IF arg_null THEN <<Return(FALSE)>>
                    ELSE <<RemoteCall(name), Return(~error)>>
          /\ lastOp' = [op |-> name, error |-> error, arg_null |-> arg_null]
    /\ UNCHANGED <<service, diag, tokens, calls, freed, deferred, crashed, ip_rules>>

(***************************************************************************)
(* Connect, its completion, and destruction.                               *)
(***************************************************************************)
NewToken == [cancelled |-> FALSE, unrefs |-> 0]

\* a connect that leaves the disconnecting flag alone
ConnectCall_keeps_disconnecting(name, peer) ==
    /\ Alive
    /\ Len(tokens) < MaxConnects
    /\ \E cb \in BOOLEAN :
          LET id == Len(tokens) + 1
          IN  /\ service' = [service EXCEPT !.cancellable = id]
              /\ tokens' = Append(tokens, NewToken)
              /\ calls' = calls \cup {[id |-> id, peer |-> peer, cb |-> cb]}
              /\ out' = <<Return(TRUE)>>
              /\ lastOp' = [op |-> name, call |-> id, cb |-> cb,
                            was_disconnecting |-> service.disconnecting]
    /\ UNCHANGED <<diag, freed, deferred, crashed, ip_rules>>

\* a connect that cancels the token it replaces
ConnectCall_cancels_previous(name, peer) ==
    /\ Alive
    /\ Len(tokens) < MaxConnects
    /\ \E cb \in BOOLEAN :
          LET id == Len(tokens) + 1
          IN  /\ service' = [service EXCEPT !.disconnecting = FALSE,
                                            !.cancellable = id]
              /\ tokens' = Append([t \in 1..Len(tokens) |->
                                      IF t = service.cancellable
                                      THEN [tokens[t] EXCEPT !.cancelled = TRUE]
                                      ELSE tokens[t]],
                                  NewToken)
              /\ calls' = calls \cup {[id |-> id, peer |-> peer, cb |-> cb]}
              /\ out' = <<Return(TRUE)>>
              /\ lastOp' = [op |-> name, call |-> id, cb |-> cb,
                            was_disconnecting |-> service.disconnecting]
    /\ UNCHANGED <<diag, freed, deferred, crashed, ip_rules>>

\* connman_service_connect (peer = FALSE) and connman_peer_connect (peer = TRUE);
\* cb tells whether the caller passed a callback
ConnectCall(name, peer) ==
    /\ Alive
    /\ Len(tokens) < MaxConnects
    /\ \E cb \in BOOLEAN :
          LET id == Len(tokens) + 1
          IN  /\ service' = [service EXCEPT !.disconnecting = FALSE,
                                            !.cancellable = id]
              /\ tokens' = Append(tokens, NewToken)
              /\ calls' = calls \cup {[id |-> id, peer |-> peer, cb |-> cb]}
              /\ out' = <<Return(TRUE)>>
              /\ lastOp' = [op |-> name, call |-> id, cb |-> cb,
                            was_disconnecting |-> service.disconnecting]
    /\ UNCHANGED <<diag, freed, deferred, crashed, ip_rules>>

Connect == ConnectCall("connman_service_connect", FALSE)

PeerConnect == ConnectCall("connman_peer_connect", TRUE)

\* the results GDBus can hand to the completion of a call: also the cancelled
\* error once the call's own cancellable was cancelled (a reply that arrived
\* before the cancellation is still handed over as it is)
ResultsOf(call) ==
    IF tokens[call.id].cancelled THEN ConnectResults \cup {CancelledError}
    ELSE ConnectResults

\* the completion of an outstanding call arrives while the service exists
Completion(name, peer) ==
    /\ Alive
    /\ \E call \in calls :
          /\ call.peer = peer
          /\ \E res \in ResultsOf(call) :
                LET r == IF peer
                         THEN peer_connect_callback(service, tokens, call, res)
                         ELSE connect_callback(service, tokens, call, res)
                IN  /\ service' = r.svc
                    /\ tokens' = r.toks
                    /\ out' = r.out
                    /\ lastOp' = [op |-> name, call |-> call.id, cb |-> call.cb,
                                  res |-> res]
          /\ calls' = calls \ {call}
    /\ UNCHANGED <<diag, freed, deferred, crashed, ip_rules>>

ConnectCallback == Completion("connect_callback", FALSE)

PeerConnectCallback == Completion("peer_connect_callback", TRUE)

\* The completion of an outstanding call arrives after g_free(service): the
\* handler reads service->cancellable from freed memory.  It finds NULL there
\* and reports failure, or finds something else and the process dies in
\* g_cancellable_is_cancelled / g_object_unref before or after the callback.
UseAfterFreeOutcomes == {"reads_null", "dies_before_callback", "dies_after_callback"}

CompletionAfterFree ==
    /\ freed
    /\ ~crashed
    /\ \E call \in calls, res \in ConnectResults, outcome \in UseAfterFreeOutcomes :
          /\ calls' = calls \ {call}
          /\ crashed' = (outcome # "reads_null")
          /\ out' = IF ~call.cb \/ outcome = "dies_before_callback" THEN <<>>
                    ELSE IF outcome = "reads_null" THEN <<ConnectCb(call, FALSE)>>
                    ELSE <<ConnectCb(call, IF call.peer THEN PeerConnectReturn(res)
                                           ELSE ConnectReturn(res))>>
          /\ lastOp' = [op |-> "completion_after_free", call |-> call.id,
                        cb |-> call.cb, outcome |-> outcome]
    /\ UNCHANGED <<service, diag, tokens, freed, deferred, ip_rules>>

\* the early return of connman_service_free on a pending connect
FreeDefers(svc) == svc.cancellable # NoToken

\* a deferred destroy that already drops the registered callback
Free_deferred_unregisters ==
    /\ Alive
    /\ IF FreeDefers(service)
       THEN /\ tokens' = [tokens EXCEPT ![service.cancellable].cancelled = TRUE]
            /\ deferred' = TRUE
            /\ out' = <<>>
            /\ service' = [service EXCEPT !.handle_property_change_fn = FALSE]
            /\ UNCHANGED <<diag, freed, ip_rules>>
       ELSE LET c == IF MULTIPLE_ROUTING_TABLE
                     THEN connman_service_delete_ip_rule(Context)
                     ELSE Context
            IN  /\ service' = [c.svc EXCEPT !.state = NULL,
                                            !.interface_name = NullName,
                                            !.handle_property_change_fn = FALSE]
                /\ out' = c.out
                /\ ip_rules' = Installed(ip_rules, c.out)
                /\ freed' = TRUE
                /\ UNCHANGED <<diag, tokens, deferred>>
    /\ lastOp' = [op |-> "connman_service_free", pending |-> service.cancellable]
    /\ UNCHANGED <<calls, crashed>>

\* connman_service_free
Free ==
    /\ Alive
    /\ IF FreeDefers(service)
       THEN /\ tokens' = [tokens EXCEPT ![service.cancellable].cancelled = TRUE]
            /\ deferred' = TRUE
            /\ out' = <<>>
            /\ UNCHANGED <<service, diag, freed, ip_rules>>
       ELSE LET c == IF MULTIPLE_ROUTING_TABLE
                     THEN connman_service_delete_ip_rule(Context)
                     ELSE Context
            IN  /\ service' = [c.svc EXCEPT !.state = NULL,
                                            !.interface_name = NullName,
                                            !.handle_property_change_fn = FALSE]
                /\ out' = c.out
                /\ ip_rules' = Installed(ip_rules, c.out)
                /\ freed' = TRUE
                /\ UNCHANGED <<diag, tokens, deferred>>
    /\ lastOp' = [op |-> "connman_service_free", pending |-> service.cancellable]
    /\ UNCHANGED <<calls, crashed>>

(***************************************************************************)
(* Specifications.                                                         *)
(***************************************************************************)
\* the state engine: pushes, snapshots and the synchronous commands
Next ==
    \/ PropertyChanged(PushedProperties, BOOLEAN)
    \/ UpdateProperties(Snapshots)
    \/ RegisterPropertyChangedCb
    \/ UnsetChanged
    \/ Disconnect
    \/ PeerDisconnect
    \/ Remove
    \/ RejectPeer
    \/ SetDefault

Spec == Init /\ [][Next]_vars

\* State pushes that accompany a connect
ConnPushes == {Property("State", "idle"), Property("State", "ready")}

\* the connect life cycle: connects, completions, destruction, with
\* disconnects and State pushes in between
NextConn ==
    \/ Connect
    \/ PeerConnect
    \/ ConnectCallback
    \/ PeerConnectCallback
    \/ CompletionAfterFree
    \/ Free
    \/ Disconnect
    \/ PropertyChanged(ConnPushes, {TRUE})
    \/ RegisterPropertyChangedCb

InitConn == InitOf({CONNMAN_SERVICE_TYPE_WIFI, CONNMAN_SERVICE_TYPE_P2P})

SpecConn == InitConn /\ [][NextConn]_vars

\* the change mask under arbitrary categories
NextMask ==
    \/ SetChangedCall
    \/ UnsetChangedCall
    \/ IsChangedCall

InitMask == InitOf({CONNMAN_SERVICE_TYPE_WIFI})

SpecMask == InitMask /\ [][NextMask]_vars

\* snapshots of a peer that carry the P2P bag or the Services array
ServicesSnapshots == {<<p>> : p \in ServicesProperties}

P2PSnapshots == {<<p>> : p \in P2PProperties_in}

ServicesSnapshot == UpdateProperties(ServicesSnapshots)

P2PSnapshot == UpdateProperties(P2PSnapshots)

NextWfd ==
    \/ ServicesSnapshot
    \/ P2PSnapshot

InitWfd == InitOf({CONNMAN_SERVICE_TYPE_P2P})

SpecWfd == InitWfd /\ [][NextWfd]_vars

\* BSS arrays pushed and fetched
BssSnapshots == {<<p>> : p \in BssProperties}

BssPush == PropertyChanged(BssProperties, {FALSE})

BssSnapshot == UpdateProperties(BssSnapshots)

NextBss ==
    \/ BssPush
    \/ BssSnapshot

InitBss == InitOf({CONNMAN_SERVICE_TYPE_WIFI})

SpecBss == InitBss /\ [][NextBss]_vars

\* the side effects of a State value: routing rules and the diagnostics flag
SideStates == {"idle", "ready", "online", "disconnect"}

EthernetSnapshot == UpdateProperties(EthernetSnapshots(service.type))

NextSide ==
    \/ StatePush(SideStates, FetchReplies \cup {FetchError})
    \/ GetIpinfo(FetchReplies \cup {FetchError})
    \/ EthernetSnapshot
    \/ PeerDisconnect
    \/ Free

InitSide == InitOf(ServiceTypes)

SpecSide == InitSide /\ [][NextSide]_vars

\* destruction of an Ethernet service around a connect, with State pushes and
\* the interface name arriving before and after the request
DestroyStates == {"ready", "idle"}

NextDestroy ==
    \/ Connect
    \/ ConnectCallback
    \/ CompletionAfterFree
    \/ Free
    \/ RegisterPropertyChangedCb
    \/ StatePush(DestroyStates, {reply \in FetchReplies : reply.prefix_len = 24})
    \/ UpdateProperties({bag \in EthernetSnapshots(CONNMAN_SERVICE_TYPE_ETHERNET) :
                            bag[1].val[1].val = <<"e", "t", "h", "0">>})

InitDestroy == InitOf({CONNMAN_SERVICE_TYPE_ETHERNET})

SpecDestroy == InitDestroy /\ [][NextDestroy]_vars

\* the commands that change nothing locally, between pushes that do
NextCmd ==
    \/ SetProperty
    \/ SetDefault
    \/ RejectPeer
    \/ Connect
    \/ PropertyChanged(PushedProperties, {FALSE})
    \/ PropertyChanged({Property("AutoConnect", "true"), Property("RunOnlineCheck", "true")},
                       {FALSE})

InitCmd == InitOf({CONNMAN_SERVICE_TYPE_WIFI, CONNMAN_SERVICE_TYPE_P2P})

SpecCmd == InitCmd /\ [][NextCmd]_vars

\* the keys that mirror a scalar or a list, pushed and fetched, with one key
\* neither decoder knows
\* (strings and booleans, a byte, arrays)
KeyStrings ==
    {Property("Name", "HomeNet"), Property("AutoConnect", "true"),
     Property("Immutable", "true"), Property("Favorite", "true"),
     Property("RunOnlineCheck", "true"), Property("RunOnlineCheck", "false"),
     Property("Address", "10.0.0.2"), Property("Error", "invalid-key"),
     Property("Unknown", "x")}

KeyBytes == {Property("Strength", 60)}

KeyArrays ==
    {Property("BSS", <<[Id |-> Bssid17, Signal |-> -40, Frequency |-> 2437]>>),
     Property("Security", <<"psk", "wps">>),
     Property("Nameservers", <<"8.8.8.8", "8.8.4.4", "1.1.1.1">>)}

\* the snapshots of one key
SingleKey(props) == {<<p>> : p \in props}

KeyPush ==
    \/ PropertyChanged(KeyStrings, {FALSE})
    \/ PropertyChanged(KeyBytes, {FALSE})
    \/ PropertyChanged(KeyArrays, {FALSE})

KeySnapshot ==
    \/ UpdateProperties(SingleKey(KeyStrings))
    \/ UpdateProperties(SingleKey(KeyBytes))
    \/ UpdateProperties(SingleKey(KeyArrays))

NextKeys ==
    \/ KeyPush
    \/ KeySnapshot
    \/ UnsetChanged

InitKeys == InitOf({CONNMAN_SERVICE_TYPE_WIFI})

SpecKeys == InitKeys /\ [][NextKeys]_vars

(***************************************************************************)
(* Vocabulary of the properties.                                           *)
(***************************************************************************)
PropertyChanges(o) == SelectSeq(o, LAMBDA e : e.ev = "property_change")

ConnectCbs(o) == SelectSeq(o, LAMBDA e : e.ev = "connect_cb")

\* op delivered the State value s, as a push or as the only key of a snapshot
StateDelivered(op, s) ==
    \/ op.op = "property_changed_cb" /\ op.key = "State" /\ op.val = s
    \/ op.op = "connman_service_update_properties" /\ op.bag = <<Property("State", s)>>

CompletionOps == {"connect_callback", "peer_connect_callback"}

ConnectOps == {"connman_service_connect", "connman_peer_connect"}

DisconnectOps ==
    {"connman_service_disconnect", "connman_peer_disconnect", "connman_service_remove"}

\* op is the completion handler of a connect, run on a live service
IsCompletion(op) == op.op \in CompletionOps

\* the enum value the header gives each string of the wire vocabulary
CanonicalEnum(s) ==
    CASE s = "idle" -> "IDLE"
      [] s = "association" -> "ASSOCIATION"
      [] s = "configuration" -> "CONFIGURATION"
      [] s = "ready" -> "READY"
      [] s = "online" -> "ONLINE"
      [] s = "disconnect" -> "DISCONNECT"
      [] s = "failure" -> "FAILURE"

\* op delivered the Online value v, as a push or as the only key of a snapshot
OnlineDelivered(op, v) ==
    \/ op.op = "property_changed_cb" /\ op.key = "Online" /\ op.val = BoolString(v)
    \/ /\ op.op = "connman_service_update_properties"
       /\ op.bag = <<Property("Online", BoolString(v))>>

\* what a step tells the listeners of the service: calls of the registered
\* property-change callback and broadcasts to the subscribers
Notifications(o) ==
    SelectSeq(o, LAMBDA e : e.ev \in {"property_change", "send_status_to_subscribers"})

\* op is a snapshot whose only key is Services, with the blob as the only
\* WiFiDisplayIEs entry
IsWfdDelivery(op) ==
    /\ op.op = "connman_service_update_properties"
    /\ Head(op.bag).key = "Services"
    /\ Head(op.bag).val # <<>>
    /\ Head(Head(op.bag).val).key = "WiFiDisplayIEs"

\* the blob of such a snapshot
BlobOf(op) == Head(Head(op.bag).val).val

WfdDelivered(op, blob) == IsWfdDelivery(op) /\ BlobOf(op) = blob

\* the 9 bytes 00 00 06 01 23 45 01 BB 00
ExampleBlob == <<0, 0, 6, 1, 35, 69, 1, 187, 0>>

\* bit i of the unsigned number n
Bit(n, i) == (n \div 2^i) % 2 = 1

\* the bit positions that masks and categories use
MaskBits == 0..MaxCategory

(***************************************************************************)
(* C1.  Suppression law: a State value other than "ready" or "online"      *)
(* that arrives (push or snapshot key) while disconnecting is true leaves  *)
(* state unchanged, makes disconnecting false, sets no changeMask bit and  *)
(* does not invoke the per-service property-change callback.               *)
(***************************************************************************)
C1_SuppressionLaw ==
    [][\A s \in StateStrings \ {"ready", "online"} :
          (StateDelivered(lastOp', s) /\ service.disconnecting)
              => /\ service'.state = service.state
                 /\ service'.disconnecting = FALSE
                 /\ service'.change_mask = service.change_mask
                 /\ PropertyChanges(out') = <<>>]_vars

\* "disconnect" arrived while disconnecting was true, with the callback
\* registered, and was dropped
C1_Witness ==
    /\ StateDelivered(lastOp, "disconnect")
    /\ lastOp.was_disconnecting
    /\ ~lastOp.was_same
    /\ service.handle_property_change_fn
    /\ service.state # "disconnect"
    /\ ~service.disconnecting

(***************************************************************************)
(* C2.  With disconnecting false, each of the seven valid state strings    *)
(* leaves state at that string's canonical enum value, and the same string *)
(* applied again changes neither state, changeMask nor disconnecting and   *)
(* does not invoke the property-change callback again.                     *)
(***************************************************************************)
C2_ApplyTwice ==
    [][\A s \in ValidStateStrings :
          (StateDelivered(lastOp', s) /\ ~service.disconnecting)
              => /\ service'.state = s
                 /\ connman_service_get_state(service'.state) = CanonicalEnum(s)
                 /\ service.state = s
                      => /\ service'.change_mask = service.change_mask
                         /\ service'.disconnecting = service.disconnecting
                         /\ PropertyChanges(out') = <<>>]_vars

\* a valid string was delivered a second time, with the callback registered
\* and the mask cleared in between
C2_Witness ==
    /\ \E s \in ValidStateStrings : StateDelivered(lastOp, s) /\ service.state = s
    /\ lastOp.was_same
    /\ ~lastOp.was_disconnecting
    /\ service.handle_property_change_fn
    /\ service.change_mask = 0

(***************************************************************************)
(* C3.  In every reachable state the state of the service, read through    *)
(* connman_service_get_state, is one of the seven enumerated values; a     *)
(* string outside the wire vocabulary, and the state before any State key  *)
(* was received, reads as Idle.                                            *)
(***************************************************************************)
C3_StateIsEnumerated ==
    /\ connman_service_get_state(service.state) \in StateEnum
    /\ service.state \notin ValidStateStrings
          => connman_service_get_state(service.state) = "IDLE"

\* a string outside the vocabulary is the current state
C3_Witness ==
    /\ service.state = "bogus"
    /\ StateDelivered(lastOp, "bogus")

(***************************************************************************)
(* C4.  Cancel-then-complete: when the token of the single pending connect *)
(* was cancelled before its completion arrives, the completion invokes the *)
(* caller's callback exactly once with success = false whatever the remote *)
(* result, pendingConnect becomes null and the token is released exactly   *)
(* once.                                                                   *)
(***************************************************************************)
C4_CancelThenComplete ==
    [][(/\ IsCompletion(lastOp')
        /\ lastOp'.cb
        /\ calls = {c \in calls : c.id = lastOp'.call}
        /\ service.cancellable = lastOp'.call
        /\ tokens[lastOp'.call].cancelled)
          => /\ ConnectCbs(out') = <<[ev |-> "connect_cb", call |-> lastOp'.call,
                                      ret |-> FALSE]>>
             /\ service'.cancellable = NoToken
             /\ tokens[lastOp'.call].unrefs = 0
             /\ tokens'[lastOp'.call].unrefs = 1]_vars

\* the only connect was cancelled by a destroy request, its remote call
\* succeeded all the same, and its completion has run
C4_Witness ==
    /\ IsCompletion(lastOp)
    /\ lastOp.cb
    /\ lastOp.res = RemoteOk
    /\ Len(tokens) = 1
    /\ tokens[1].cancelled
    /\ tokens[1].unrefs = 1
    /\ deferred
    /\ calls = {}

(***************************************************************************)
(* C5.  Callers are never left waiting: once the completion of a connect   *)
(* that was issued with a callback is delivered, the callback has been     *)
(* invoked exactly once.                                                   *)
(***************************************************************************)
C5_CallbackExactlyOnce ==
    (lastOp.op \in CompletionOps \cup {"completion_after_free"} /\ lastOp.cb)
        => Len(ConnectCbs(out)) = 1

ReportedResult(op) ==
    \/ ~op.res.error
    \/ g_strrstr(op.res.message, "AlreadyConnected")
    \/ op.op = "peer_connect_callback" /\ g_strrstr(op.res.message, "Operation aborted")

C7_AtMostOneInFlight ==
    Cardinality({c \in calls : ~tokens[c.id].cancelled}) <= 1

(***************************************************************************)
(* C8.  In every reachable state of a live service pendingConnect is       *)
(* non-null if and only if a connect completion is outstanding.            *)
(***************************************************************************)
C8_PendingIffInFlight ==
    Alive => (service.cancellable # NoToken <=> calls # {})

(***************************************************************************)
(* C9.  Deferred destruction completes: a destroy request made while       *)
(* pendingConnect is non-null cancels the token and releases nothing, and  *)
(* once the completion handler of the cancelled connect has run the        *)
(* service is released.                                                    *)
(***************************************************************************)
C9_DeferredDestructionCompletes ==
    /\ (lastOp.op = "connman_service_free" /\ lastOp.pending # NoToken)
          => tokens[lastOp.pending].cancelled /\ ~freed
    /\ (deferred /\ IsCompletion(lastOp) /\ calls = {}) => freed

(***************************************************************************)
(* C10.  No completion handler runs on a released service: a destroy       *)
(* request releases the service only when no connect completion is         *)
(* outstanding.                                                            *)
(***************************************************************************)
C10_NoCompletionAfterRelease ==
    /\ freed => calls = {}
    /\ lastOp.op # "completion_after_free"

(***************************************************************************)
(* C11.  Idempotent-connect remap: when the completion of a service        *)
(* connect arrives and the service's token is not cancelled, the callback  *)
(* receives TRUE exactly when the remote call succeeded or its error       *)
(* message contains "AlreadyConnected"; every other error gives FALSE.     *)
(***************************************************************************)
C11_AlreadyConnectedRemap ==
    [][(/\ lastOp'.op = "connect_callback"
        /\ lastOp'.cb
        /\ ~CancelledPath(service, tokens))
          => /\ Len(ConnectCbs(out')) = 1
             /\ ConnectCbs(out')[1].call = lastOp'.call
             /\ ConnectCbs(out')[1].ret =
                   (\/ ~lastOp'.res.error
                    \/ \E i \in 1..Len(lastOp'.res.message) :
                          lastOp'.res.message[i] = "AlreadyConnected")]_vars

\* a service connect completed with an error that contains "AlreadyConnected"
\* among other text, and the caller was told it succeeded
C11_Witness ==
    /\ lastOp.op = "connect_callback"
    /\ lastOp.cb
    /\ lastOp.res.error
    /\ Len(lastOp.res.message) > 1
    /\ g_strrstr(lastOp.res.message, "AlreadyConnected")
    /\ ConnectCbs(out) = <<[ev |-> "connect_cb", call |-> lastOp.call, ret |-> TRUE]>>

(***************************************************************************)
(* C12.  "Operation aborted" is a success only for peers: with a token     *)
(* that is not cancelled, a peer connect completion whose error contains   *)
(* "Operation aborted" reports TRUE, and a service connect completion with *)
(* the same error (and no "AlreadyConnected") reports FALSE.               *)
(***************************************************************************)
C12_OperationAbortedPeerOnly ==
    [][(/\ IsCompletion(lastOp')
        /\ lastOp'.cb
        /\ ~CancelledPath(service, tokens)
        /\ lastOp'.res.error
        /\ g_strrstr(lastOp'.res.message, "Operation aborted")
        /\ ~g_strrstr(lastOp'.res.message, "AlreadyConnected"))
          => /\ Len(ConnectCbs(out')) = 1
             /\ ConnectCbs(out')[1].ret = (lastOp'.op = "peer_connect_callback")]_vars

\* a peer connect completed with "Operation aborted" on a live token and its
\* caller was told it succeeded
C12_Witness ==
    /\ lastOp.op = "peer_connect_callback"
    /\ lastOp.cb
    /\ lastOp.res.error
    /\ g_strrstr(lastOp.res.message, "Operation aborted")
    /\ ConnectCbs(out) = <<[ev |-> "connect_cb", call |-> lastOp.call, ret |-> TRUE]>>

C14_InvalidBlobChangesNothing ==
    [][IsWfdDelivery(lastOp') =>
          LET blob == BlobOf(lastOp')
          IN  (\/ Len(blob) < 9
               \/ blob[1] # 0
               \/ blob[2] # 0
               \/ blob[3] # 6)
                 => service'.peer = service.peer]_vars

(***************************************************************************)
(* C15.  For every blob of at least 9 bytes that starts 00 00 06 the       *)
(* parser sets wfd_enabled, wfd_devtype = byte 4 & 3, wfd_sessionavail =   *)
(* (byte 4 >> 4) & 3, wfd_cpsupport = byte 3 & 1 and wfd_rtspport =        *)
(* byte 5 * 256 + byte 6, which lies in 0..65535.                          *)
(***************************************************************************)
C15_ValidBlobDecoded ==
    [][IsWfdDelivery(lastOp') =>
          LET blob == BlobOf(lastOp')
          IN  (/\ Len(blob) >= 9
               /\ blob[1] = 0
               /\ blob[2] = 0
               /\ blob[3] = 6)
             => /\ service'.peer.wfd_enabled = TRUE
                /\ service'.peer.wfd_devtype = blob[5] % 4
                /\ service'.peer.wfd_sessionavail = (blob[5] \div 16) % 4
                /\ service'.peer.wfd_cpsupport = blob[4] % 2
                /\ service'.peer.wfd_rtspport = blob[6] * 256 + blob[7]
                /\ service'.peer.wfd_rtspport \in 0..65535]_vars

\* a valid blob with device type 3, session availability 3 and the largest
\* port was decoded
C15_Witness ==
    /\ IsWfdDelivery(lastOp)
    /\ Len(BlobOf(lastOp)) >= 9
    /\ SubSeq(BlobOf(lastOp), 1, 7) = <<0, 0, 6, 1, 255, 255, 255>>
    /\ service.peer.wfd_enabled
    /\ service.peer.wfd_devtype = 3
    /\ service.peer.wfd_sessionavail = 3
    /\ service.peer.wfd_rtspport = 65535

(***************************************************************************)
(* C16.  As stated: decoding 00 00 06 01 23 45 01 BB 00 yields wfd_enabled,*)
(* cpSupport 1, devType 1, sessionAvail 0 and rtspPort 443.                *)
(***************************************************************************)
C16_ExampleAsStated ==
    [][WfdDelivered(lastOp', ExampleBlob)
          => /\ service'.peer.wfd_enabled = TRUE
             /\ service'.peer.wfd_cpsupport = 1
             /\ service'.peer.wfd_devtype = 1
             /\ service'.peer.wfd_sessionavail = 0
             /\ service'.peer.wfd_rtspport = 443]_vars

(***************************************************************************)
(* C16, amended.  Decoding 00 00 06 01 23 45 01 BB 00 yields wfd_enabled,  *)
(* cpSupport 1, devType 3, sessionAvail 2 and rtspPort 17665 (0x4501).     *)
(***************************************************************************)
C16_ExampleDecodes ==
    [][WfdDelivered(lastOp', ExampleBlob)
          => /\ service'.peer.wfd_enabled = TRUE
             /\ service'.peer.wfd_cpsupport = 1
             /\ service'.peer.wfd_devtype = 3
             /\ service'.peer.wfd_sessionavail = 2
             /\ service'.peer.wfd_rtspport = 17665]_vars

\* the example blob was decoded
C16_Witness ==
    /\ WfdDelivered(lastOp, ExampleBlob)
    /\ service.peer.wfd_rtspport = 17665

(***************************************************************************)
(* C17.  As stated: an Online value that differs from the current one      *)
(* always emits exactly one notification, the registered callback with     *)
(* ("Online", v) or, with no callback on an Ethernet service, a broadcast. *)
(***************************************************************************)
C17_ExactlyOneNotification ==
    [][\A v \in BOOLEAN :
          (OnlineDelivered(lastOp', v) /\ v # service.online)
             => /\ Len(Notifications(out')) = 1
                /\ \/ /\ service.handle_property_change_fn
                      /\ Notifications(out')[1].ev = "property_change"
                   \/ /\ ~service.handle_property_change_fn
                      /\ service.type = CONNMAN_SERVICE_TYPE_ETHERNET
                      /\ Notifications(out')[1].ev = "send_status_to_subscribers"]_vars

(***************************************************************************)
(* C17, amended.  An Online value v that differs from the current one      *)
(* makes online = v, sets the Status bit and no other bit, and notifies    *)
(* at most once: the registered callback with ("Online", v); with no       *)
(* callback, a broadcast on an Ethernet service and nothing on any other.  *)
(* An equal value marks and notifies nothing.  state and disconnecting     *)
(* never change, and disconnecting does not hold the change back.          *)
(***************************************************************************)
C17_OnlineChange ==
    [][\A v \in BOOLEAN :
          OnlineDelivered(lastOp', v)
             => /\ service'.state = service.state
                /\ service'.disconnecting = service.disconnecting
                /\ service'.online = v
                /\ IF v # service.online
                   THEN /\ \A i \in MaskBits :
                              Bit(service'.change_mask, i)
                                 <=> (Bit(service.change_mask, i) \/ i = 0)
                        /\ Notifications(out') =
                              IF service.handle_property_change_fn
                              THEN <<PropertyChange("Online", BoolString(v))>>
                              ELSE IF service.type = CONNMAN_SERVICE_TYPE_ETHERNET
                              THEN <<SendStatusToSubscribers>>
                              ELSE <<>>
                   ELSE /\ service' = service
                        /\ Notifications(out') = <<>>]_vars

\* Online went to true on a service that is disconnecting, and the callback
\* was told
C17_Witness ==
    /\ OnlineDelivered(lastOp, TRUE)
    /\ service.online
    /\ service.disconnecting
    /\ Notifications(out) = <<PropertyChange("Online", "true")>>

(***************************************************************************)
(* C18.  Every accepted state transition (the new string differs from the  *)
(* current one and is not suppressed) sets state to the new string, sets   *)
(* Status and FindNetworks in the change mask and calls the registered     *)
(* property-change callback exactly once with ("State", value); with no    *)
(* callback registered state and mask are updated all the same.            *)
(***************************************************************************)
C18_AcceptedTransition ==
    [][\A s \in StateStrings :
          (/\ StateDelivered(lastOp', s)
           /\ s # service.state
           /\ ~(service.disconnecting /\ s \notin {"ready", "online"}))
             => /\ service'.state = s
                /\ Bit(service'.change_mask, 0)
                /\ Bit(service'.change_mask, 1)
                /\ PropertyChanges(out') =
                      IF service.handle_property_change_fn
                      THEN <<PropertyChange("State", s)>>
                      ELSE <<>>]_vars

\* a transition to "online" on a service with no callback registered: state
\* and both bits are set, nobody is called
C18_Witness ==
    /\ StateDelivered(lastOp, "online")
    /\ service.state = "online"
    /\ ~service.handle_property_change_fn
    /\ service.change_mask = 3
    /\ PropertyChanges(out) = <<>>

(***************************************************************************)
(* C19.  As stated: a State push of "ready" or "online" that differs from  *)
(* the current state, applied while disconnecting is true, leaves          *)
(* disconnecting false.                                                    *)
(***************************************************************************)
C19_ClearedByAcceptedTransition ==
    [][\A s \in {"ready", "online"} :
          (StateDelivered(lastOp', s) /\ service.disconnecting /\ s # service.state)
             => service'.disconnecting = FALSE]_vars

(***************************************************************************)
(* C19, amended.  An accepted transition does not clear disconnecting: a   *)
(* State value "ready" or "online" that differs from the current state,    *)
(* applied while disconnecting is true, becomes the state and leaves       *)
(* disconnecting true.  A push or snapshot clears the flag only by         *)
(* suppressing a State value other than "ready" and "online".              *)
(***************************************************************************)
C19_AcceptedTransitionKeepsFlag ==
    [][/\ \A s \in {"ready", "online"} :
             (StateDelivered(lastOp', s) /\ service.disconnecting /\ s # service.state)
                => /\ service'.state = s
                   /\ service'.disconnecting = TRUE
       /\ (service.disconnecting /\ ~service'.disconnecting)
             => \/ /\ lastOp'.op = "property_changed_cb"
                   /\ lastOp'.key = "State"
                   /\ lastOp'.val \notin {"ready", "online"}
                \/ /\ lastOp'.op = "connman_service_update_properties"
                   /\ \E i \in 1..Len(lastOp'.bag) :
                         /\ lastOp'.bag[i].key = "State"
                         /\ lastOp'.bag[i].val \notin {"ready", "online"}]_vars

\* "ready" was pushed to a disconnecting service in another state and was
\* accepted; the service is still disconnecting
C19_Witness ==
    /\ lastOp.op = "property_changed_cb"
    /\ lastOp.key = "State"
    /\ lastOp.val = "ready"
    /\ lastOp.was_disconnecting
    /\ ~lastOp.was_same
    /\ service.state = "ready"
    /\ service.disconnecting

(***************************************************************************)
(* C20.  As stated: issuing RejectPeer sets disconnecting to true, as      *)
(* Disconnect and Remove do.                                               *)
(***************************************************************************)
C20_RejectPeerSetsDisconnecting ==
    [][lastOp'.op \in {"connman_service_reject_peer", "connman_service_disconnect",
                       "connman_service_remove"}
          => service'.disconnecting = TRUE]_vars

(***************************************************************************)
(* C20, amended.  Issuing RejectPeer leaves disconnecting, and every other *)
(* field of the service, as it was; Disconnect, the peer Disconnect and    *)
(* Remove set disconnecting to true, whether the remote call fails or not. *)
(***************************************************************************)
C20_RejectPeerKeepsDisconnecting ==
    [][/\ lastOp'.op = "connman_service_reject_peer" => service' = service
       /\ lastOp'.op \in {"connman_service_disconnect", "connman_peer_disconnect",
                          "connman_service_remove"}
             => service' = [service EXCEPT !.disconnecting = TRUE]]_vars

\* RejectPeer was issued and the service is not disconnecting
C20_Witness ==
    /\ lastOp.op = "connman_service_reject_peer"
    /\ service.type = CONNMAN_SERVICE_TYPE_P2P
    /\ ~service.disconnecting

(***************************************************************************)
(* C21.  Disconnect, the peer Disconnect and Remove set disconnecting and  *)
(* nothing else, and return TRUE exactly when the remote call reported no  *)
(* error.  The flag stays set after a failed call, so the next State value *)
(* other than "ready" and "online" is suppressed.                          *)
(***************************************************************************)
C21_DisconnectSetsFlag ==
    [][/\ lastOp'.op \in DisconnectOps
             => /\ service' = [service EXCEPT !.disconnecting = TRUE]
                /\ out' = <<Return(~lastOp'.error)>>
       /\ \A s \in StateStrings \ {"ready", "online"} :
             (/\ lastOp.op \in DisconnectOps
              /\ lastOp.error
              /\ StateDelivered(lastOp', s))
                => /\ service'.state = service.state
                   /\ PropertyChanges(out') = <<>>]_vars

\* Remove failed on a service that was not disconnecting: FALSE is returned
\* and the service is disconnecting
C21_Witness ==
    /\ lastOp.op = "connman_service_remove"
    /\ lastOp.error
    /\ out = <<Return(FALSE)>>
    /\ service.disconnecting
    /\ service.state = "online"

(***************************************************************************)
(* C22.  Connect and the peer Connect clear disconnecting, and only a      *)
(* disconnect command sets it; so the State value that follows a Connect   *)
(* and differs from the current state is applied and the registered        *)
(* callback is told, whatever was issued before the Connect.               *)
(***************************************************************************)
C22_ConnectClearsFlag ==
    [][/\ lastOp'.op \in ConnectOps => ~service'.disconnecting
       /\ (~service.disconnecting /\ service'.disconnecting)
             => lastOp'.op \in DisconnectOps
       /\ \A s \in StateStrings :
             (/\ lastOp.op \in ConnectOps
              /\ StateDelivered(lastOp', s)
              /\ s # service.state)
                => /\ service'.state = s
                   /\ service.handle_property_change_fn
                         => PropertyChanges(out') = <<PropertyChange("State", s)>>]_vars

\* a Connect was issued on a disconnecting service
C22_Witness ==
    /\ lastOp.op \in ConnectOps
    /\ lastOp.was_disconnecting
    /\ ~service.disconnecting
    /\ service.handle_property_change_fn

\* the BSS array the last step delivered, by push or single-key snapshot
IsBssDelivery(op) ==
    \/ op.op = "property_changed_cb" /\ op.key = "BSS"
    \/ /\ op.op = "connman_service_update_properties"
       /\ Len(op.bag) = 1
       /\ op.bag[1].key = "BSS"

BssOf(op) == IF op.op = "property_changed_cb" THEN op.val ELSE op.bag[1].val

\* the field of an entry, or the default when the entry lacks it
FieldOr(entry, field, default) ==
    IF field \in DOMAIN entry THEN entry[field] ELSE default

\* C23: a BSS update, pushed or fetched, replaces the list: whatever the list
\* held before, it then has one entry per input entry in input order; the
\* bssid is the Id cut to 17 characters or empty when the entry has no Id,
\* signal and frequency are the entry's or 0; an entry that lacks fields is
\* appended all the same and the entries after it are decoded.  Nothing else
\* of the service changes and nothing is emitted.
C23_BssReplaced ==
    [][IsBssDelivery(lastOp')
          => LET va == BssOf(lastOp')
             IN  /\ Len(service'.bss) = Len(va)
                 /\ \A j \in 1..Len(va) :
                       LET id == FieldOr(va[j], "Id", <<>>)
                       IN  /\ service'.bss[j].bssid
                                 = [k \in 1..(IF Len(id) > 17 THEN 17 ELSE Len(id)) |-> id[k]]
                           /\ service'.bss[j].signal = FieldOr(va[j], "Signal", 0)
                           /\ service'.bss[j].frequency = FieldOr(va[j], "Frequency", 0)
                 /\ service' = [service EXCEPT !.bss = service'.bss]
                 /\ out' = <<>>]_vars

\* an array of two entries was fetched: the first entry had no Id, the
\* second an Id of 18 characters
C23_Witness ==
    /\ lastOp.op = "connman_service_update_properties"
    /\ IsBssDelivery(lastOp)
    /\ Len(BssOf(lastOp)) = 2
    /\ "Id" \notin DOMAIN BssOf(lastOp)[1]
    /\ FieldOr(BssOf(lastOp)[2], "Id", <<>>) = Bssid18
    /\ service.bss = <<[bssid |-> <<>>, signal |-> -60, frequency |-> 2462],
                       [bssid |-> Bssid17, signal |-> -55, frequency |-> 5180]>>

\* the last step delivered one key, as a push or as the only key of a
\* snapshot
IsPush(op) == op.op = "property_changed_cb"

IsSingleKeySnapshot(op) ==
    op.op = "connman_service_update_properties" /\ Len(op.bag) = 1

IsDelivery(op) == IsPush(op) \/ IsSingleKeySnapshot(op)

KeyOf(op) == IF IsPush(op) THEN op.key ELSE op.bag[1].key

ValOf(op) == IF IsPush(op) THEN op.val ELSE op.bag[1].val

\* the keys the claim about the two paths names
RecognizedKeys ==
    {"Name", "Type", "State", "Strength", "Security", "AutoConnect", "Immutable",
     "Favorite", "Online", "RunOnlineCheck", "P2P", "Services", "Address", "BSS"}

\* the keys either decoder copies without a word to the change mask
CopiedKeys ==
    {"Security", "AutoConnect", "Immutable", "Favorite", "Address", "BSS", "Error"}

Broadcasts(o) == SelectSeq(o, LAMBDA e : e.ev = "send_status_to_subscribers")

HasBits(mask, category) == BitAnd(mask, category) = category

\* C24: a pushed key does to the service what a snapshot holding only that
\* key does, for every key of RecognizedKeys and for a key neither path
\* knows.
C24_PushLikeSnapshot ==
    [][(IsPush(lastOp') /\ lastOp'.key \in RecognizedKeys \cup {"Unknown"})
          => service' = connman_service_update_properties(
                            Context, <<Property(lastOp'.key, lastOp'.val)>>,
                            FetchError, FALSE).svc]_vars

C26_RunOnlineCheckMarks ==
    [][(IsDelivery(lastOp') /\ KeyOf(lastOp') = "RunOnlineCheck")
          => LET v == ValOf(lastOp') = "true"
             IN  /\ service'.online_checking = v
                 /\ IF v # service.online_checking
                    THEN /\ HasBits(service'.change_mask,
                                    CONNMAN_SERVICE_CHANGE_CATEGORY_GETSTATUS)
                         /\ Len(Broadcasts(out')) = 1
                    ELSE /\ service'.change_mask = service.change_mask
                         /\ Broadcasts(out') = <<>>]_vars

SetCommands ==
    PointerCommands \cup ScalarCommands
        \cup {"connman_service_set_default", "connman_service_reject_peer"}

RemoteCalls(o) == SelectSeq(o, LAMBDA e : e.ev = "remote_call")

Returns(o) == SelectSeq(o, LAMBDA e : e.ev = "return")

\* C30: each of the nine commands makes at most one remote call, returns TRUE
\* exactly when it made the call and the call reported no error, and leaves
\* the service (state, online, disconnecting, change mask, auto_connect,
\* online_checking, ip info, pending connect and the rest), the diagnostics
\* flag and the tokens as they were, whether the call fails or not.
C30_CommandsChangeNothing ==
    [][lastOp'.op \in SetCommands
          => /\ Len(RemoteCalls(out')) <= 1
             /\ Returns(out') = <<Return(Len(RemoteCalls(out')) = 1 /\ ~lastOp'.error)>>
             /\ Len(out') = Len(RemoteCalls(out')) + 1
             /\ service' = service
             /\ diag' = diag
             /\ tokens' = tokens
             /\ calls' = calls]_vars

\* connman_service_set_autoconnect failed on an online service with a connect
\* pending; auto_connect is as the last push left it
C30_Witness ==
    /\ lastOp.op = "connman_service_set_autoconnect"
    /\ lastOp.error
    /\ out = <<RemoteCall("connman_service_set_autoconnect"), Return(FALSE)>>
    /\ service.state = "online"
    /\ service.auto_connect
    /\ service.cancellable # NoToken

Refreshes(o) == SelectSeq(o, LAMBDA e : e.ev = "technology_update_properties")

AddCommands(o) == SelectSeq(o, LAMBDA e : e.ev = "system" /\ e.verb = "add")

\* C27: a State value "ready" for a P2P service, with a connected peer and the
\* diagnostics flag false, or a State value "disconnect" for a P2P service,
\* with no connected peer and the flag true, the service disconnecting after
\* a local peer disconnect or not, toggles the flag and requests one refresh
\* of the Wi-Fi technology; any other step leaves the flag and requests none.
C27_DiagnosticsToggle ==
    [][IF lastOp'.op = "property_changed_cb" /\ lastOp'.key = "State"
       THEN LET s == lastOp'.val
                toggles ==
                    /\ service.type = CONNMAN_SERVICE_TYPE_P2P
                    /\ \/ s = "ready" /\ lastOp'.connected_peer /\ ~diag
                       \/ s = "disconnect" /\ ~lastOp'.connected_peer /\ diag
            IN  IF toggles
                THEN diag' = ~diag /\ Len(Refreshes(out')) = 1
                ELSE diag' = diag /\ Refreshes(out') = <<>>
       ELSE diag' = diag /\ Refreshes(out') = <<>>]_vars

\* C28: while an Ethernet service has routing rules recorded as applied, its
\* state is "ready".
C28_RulesOnlyInReady ==
    (Alive /\ service.type = CONNMAN_SERVICE_TYPE_ETHERNET /\ service.iprule_added)
        => service.state = "ready"

\* C29: a WiFi or P2P service never has routing rules recorded as applied, and
\* no step on it issues an add command.
C29_RulesOnlyForEthernet ==
    service.type # CONNMAN_SERVICE_TYPE_ETHERNET
        => ~service.iprule_added /\ AddCommands(out) = <<>>

\* op is a State push that met the flag with a value other than "ready" and
\* "online"
IsDroppedPush(op) ==
    /\ op.op = "property_changed_cb"
    /\ op.key = "State"
    /\ op.was_disconnecting
    /\ op.val \notin {"ready", "online"}

IsStatePush(op) == op.op = "property_changed_cb" /\ op.key = "State"

\* C31: disconnecting becomes true only in connman_service_disconnect,
\* connman_peer_disconnect and connman_service_remove.  The State push that is
\* dropped leaves the state as it was and clears the flag, so the State push
\* that follows a dropped one is applied, and so is every State push that
\* finds the flag clear.
C31_AtMostOnePushDropped ==
    [][/\ (~service.disconnecting /\ service'.disconnecting)
             => lastOp'.op \in DisconnectOps
       /\ IsDroppedPush(lastOp')
             => /\ service' = [service EXCEPT !.disconnecting = FALSE]
                /\ PropertyChanges(out') = <<>>
       /\ (IsStatePush(lastOp') /\ (IsDroppedPush(lastOp) \/ ~service.disconnecting))
             => service'.state = lastOp'.val]_vars

\* a single "idle" push after a disconnect of an online service was dropped:
\* the state is still "online" and the flag is clear
C31_Witness ==
    /\ IsDroppedPush(lastOp)
    /\ lastOp.val = "idle"
    /\ service.state = "online"
    /\ ~service.disconnecting

\* what the callback of the completed call received, if it had one
CallbackGot(op, ret) ==
    IF op.cb THEN <<[ev |-> "connect_cb", call |-> op.call, ret |-> ret]>> ELSE <<>>

\* C32: while two connects are outstanding the field holds the token of the
\* second.  A completion that finds a token there that is not cancelled hands
\* its own remote result to its own callback, drops one reference of that
\* token, which need not be its own, and clears the field; a completion that
\* finds the field clear hands FALSE to its callback whatever the remote
\* result and touches no token.
C32_FirstCompletionReleasesCurrent ==
    [][/\ (Cardinality(calls) = 2 /\ Len(tokens) = 2) => service.cancellable = 2
       /\ (IsCompletion(lastOp') /\ service.cancellable = NoToken)
             => /\ ConnectCbs(out') = CallbackGot(lastOp', FALSE)
                /\ tokens' = tokens
                /\ service' = service
       /\ (/\ IsCompletion(lastOp')
           /\ service.cancellable # NoToken
           /\ ~tokens[service.cancellable].cancelled)
             => /\ ConnectCbs(out') = CallbackGot(lastOp', ReportedResult(lastOp'))
                /\ tokens' = [tokens EXCEPT ![service.cancellable].unrefs = @ + 1]
                /\ service' = [service EXCEPT !.cancellable = NoToken]]_vars

\* two connects overlapped and neither token was cancelled; the second to
\* complete had succeeded remotely and its callback received FALSE; the token
\* of the second connect was released and that of the first was not
C32_Witness ==
    /\ IsCompletion(lastOp)
    /\ lastOp.res = RemoteOk
    /\ Len(tokens) = 2
    /\ calls = {}
    /\ \A i \in 1..2 : ~tokens[i].cancelled
    /\ tokens[1].unrefs = 0
    /\ tokens[2].unrefs = 1
    /\ ConnectCbs(out) = <<[ev |-> "connect_cb", call |-> lastOp.call, ret |-> FALSE]>>

\* C33: once every connect completion has been delivered, each token a
\* connect allocated has been released once, and no token is ever released
\* twice.
C33_TokenReleasedOnce ==
    /\ \A t \in 1..Len(tokens) : tokens[t].unrefs <= 1
    /\ calls = {} => \A t \in 1..Len(tokens) : tokens[t].unrefs = 1

\* C34: a destroy request that finds a connect pending cancels the pending
\* token and does nothing else: no field of the service changes (callback,
\* state, routing rules), nothing is released and no command is issued; this
\* is so for a second request as for the first.  While the request is
\* deferred a State push that differs from the state is applied and reaches
\* the registered callback.
C34_DeferredDestroyOnlyCancels ==
    [][/\ (lastOp'.op = "connman_service_free" /\ lastOp'.pending # NoToken)
             => /\ service' = service
                /\ tokens' = [tokens EXCEPT ![lastOp'.pending].cancelled = TRUE]
                /\ deferred' /\ ~freed'
                /\ out' = <<>>
                /\ calls' = calls
       /\ (/\ deferred
           /\ IsStatePush(lastOp')
           /\ ~Suppressed(service, lastOp'.val)
           /\ lastOp'.val # service.state)
             => /\ service'.state = lastOp'.val
                /\ service.handle_property_change_fn
                      => PropertyChanges(out')
                            = <<PropertyChange("State", lastOp'.val)>>]_vars

\* after a deferred destroy request a "ready" push was applied: the callback
\* was told and routing rules were added while the connect is still pending
C34_Witness ==
    /\ deferred
    /\ ~freed
    /\ service.cancellable # NoToken
    /\ tokens[service.cancellable].cancelled
    /\ IsStatePush(lastOp)
    /\ service.state = "ready"
    /\ service.iprule_added
    /\ PropertyChanges(out) = <<PropertyChange("State", "ready")>>

DeleteCommands(o) == SelectSeq(o, LAMBDA e : e.ev = "system" /\ e.verb = "delete")

\* C35: every delete command names an entry that an add command put into the
\* OS tables and that is still there: the same kind, table id, address,
\* prefix length and gateway.
C35_DeleteUndoesAdd ==
    [][\A i \in 1..Len(DeleteCommands(out')) :
          Rule(DeleteCommands(out')[i]) \in ip_rules]_vars

UpdateCallbacks(o) == SelectSeq(o, LAMBDA e : e.ev = "service_property_changed")

\* C36: a push, whatever its property (a State value that is then dropped, a
\* State value equal to the state, a property the handler does not know),
\* calls the process-wide update callback, when it is set, once with the
\* property and the value, before anything the decoding emits; when it is not
\* set nothing is called.  No other step, a snapshot in particular, calls it.
C36_UpdateCallbackOncePerPush ==
    [][IF IsPush(lastOp')
       THEN IF lastOp'.update_cb
            THEN /\ out' # <<>>
                 /\ Head(out') = UpdateCallback(lastOp'.key, lastOp'.val)
                 /\ Len(UpdateCallbacks(out')) = 1
            ELSE UpdateCallbacks(out') = <<>>
       ELSE UpdateCallbacks(out') = <<>>]_vars

\* the update callback was told of an "idle" push that the disconnecting rule
\* dropped
C36_Witness ==
    /\ IsDroppedPush(lastOp)
    /\ lastOp.update_cb
    /\ lastOp.val = "idle"
    /\ out = <<UpdateCallback("State", "idle")>>
    /\ service.state = "online"

\* the state of the service once the first i keys of the bag are decoded
StateAfter(bag, i) ==
    connman_service_update_properties(Context, SubSeq(bag, 1, i), FetchError, FALSE).svc.state

\* C37: hidden is true after a step exactly if it was true before, or the step
\* is a snapshot with a State key after whose decoding the state is
\* "association", whether that key changed the state, was dropped or repeated
\* it.  So no push sets it and no step takes it back to false.
C37_HiddenSetBySnapshotOnly ==
    [][service'.hidden
          = (\/ service.hidden
             \/ /\ lastOp'.op = "connman_service_update_properties"
                /\ \E i \in 1..Len(lastOp'.bag) :
                      /\ lastOp'.bag[i].key = "State"
                      /\ StateAfter(lastOp'.bag, i) = "association")]_vars

\* a fetched State "idle" was dropped while the state was "association",
\* and the service is hidden
C37_Witness ==
    /\ lastOp.op = "connman_service_update_properties"
    /\ lastOp.bag = <<Property("State", "idle")>>
    /\ lastOp.was_disconnecting
    /\ service.state = "association"
    /\ service.hidden

====
